---- MODULE Spec2Model ----
(***************************************************************************)
(* Model of quiver-arrow (src/python/quiver.py): the Operation Controller  *)
(* (QuiverArrowCommand.run), the Monitor thread (_PeriodicStatusThread),   *)
(* the supervised external process and the transfer log it appends to.     *)
(* Time is a discrete clock read by every time.time() call; one clock unit *)
(* is the Monitor's tick period.                                           *)
(***************************************************************************)
EXTENDS Integers, Sequences, FiniteSets, TLC

(* ------------------------------ bounds --------------------------------- *)
MaxClock == 3
MaxLines == 2
MaxTimeout == 1
\* for the statistics pass taken alone: lines of a finished log, and the
\* longest run duration
MaxRecords == 3
MaxDuration == 2

(* ------------------------- program constants --------------------------- *)
TickPeriod == 1
SIGTERM == 15

None == "None"
\* stands for None in a field that otherwise holds a number
NoValue == -1
NL == "\n"
Digits == {"0", "1", "2", "3", "4", "5", "6", "7", "8", "9"}
Operations == {"send", "receive"}

(* Lines the external process may emit on its standard output (without     *)
(* the terminator): a sender record, a receiver record and a line that no  *)
(* parser accepts.                                                         *)
SendLine == <<"a", ",", "1">>
RecvLine == <<"a", ",", "1", ",", "3">>
JunkLine == <<"x">>
\* receiver records with a receive time before the send time, and with a
\* longer latency
RecvLineEarly == <<"a", ",", "3", ",", "1">>
RecvLineLate == <<"a", ",", "1", ",", "9">>
\* lines a finished log may hold
LogLines(op) ==
    IF op = "send" THEN {SendLine, JunkLine}
    ELSE {RecvLine, RecvLineEarly, RecvLineLate, JunkLine}
\* what a collaborator running operation op may emit
OutputLines(op) == {IF op = "send" THEN SendLine ELSE RecvLine, JunkLine}

(* ------------------------- parsing (pure) ------------------------------ *)
\* index of the first c in s at or after position i, 0 when there is none
IndexOf(s, c, i) ==
    LET hits == {j \in i..Len(s) : s[j] = c} IN
    IF hits = {} THEN 0 ELSE CHOOSE j \in hits : \A h \in hits : j <= h

\* surrounding whitespace is ignored by long(); only a trailing newline occurs
Strip(s) ==
    IF Len(s) > 0 /\ s[Len(s)] = NL THEN SubSeq(s, 1, Len(s) - 1) ELSE s

DigitValue(c) ==
    CASE c = "0" -> 0 [] c = "1" -> 1 [] c = "2" -> 2 [] c = "3" -> 3
      [] c = "4" -> 4 [] c = "5" -> 5 [] c = "6" -> 6 [] c = "7" -> 7
      [] c = "8" -> 8 [] c = "9" -> 9

\* long(s) succeeds: after the strip, one or more decimal digits
IsLong[s \in Seq(STRING)] ==
    LET t == Strip(s) IN Len(t) > 0 /\ \A i \in 1..Len(t) : t[i] \in Digits

DecimalValue[t \in Seq(STRING)] ==
    IF Len(t) = 0 THEN 0
    ELSE 10 * DecimalValue[SubSeq(t, 1, Len(t) - 1)] + DigitValue(t[Len(t)])

\* long(s), for s with IsLong[s]
long[s \in Seq(STRING)] == DecimalValue[Strip(s)]

\* s.split(",", n): s cut at its first n commas
split[s \in Seq(STRING), n \in Nat] ==
    LET k == IndexOf(s, ",", 1) IN
    IF n = 0 \/ k = 0 THEN <<s>>
    ELSE <<SubSeq(s, 1, k - 1)>> \o split[SubSeq(s, k + 1, Len(s)), n - 1]

\* outcome of a parser that raised
ParseFailure == [ok |-> FALSE, rec |-> <<>>]

\* message_id, send_time = line.split(",", 1) needs exactly two fields, and
\* long(send_time) needs the second to convert
parse_send[line \in Seq(STRING)] ==
    LET fields == split[line, 1] IN
    IF Len(fields) # 2 \/ ~IsLong[fields[2]] THEN ParseFailure
    ELSE [ok |-> TRUE, rec |-> <<fields[1], long[fields[2]]>>]

\* message_id, send_time, receive_time = line.split(",", 2) needs exactly
\* three fields, and the second and the third must convert
parse_receive[line \in Seq(STRING)] ==
    LET fields == split[line, 2] IN
    IF Len(fields) # 3 \/ ~IsLong[fields[2]] \/ ~IsLong[fields[3]]
    THEN ParseFailure
    ELSE [ok |-> TRUE,
          rec |-> <<fields[1], long[fields[2]], long[fields[3]]>>]

\* parse_func as selected in do_run, and the parser each compute_* uses
parse_func(op, line) ==
    IF op = "send" THEN parse_send[line] ELSE parse_receive[line]

(* --------------------- incremental reader (pure) ----------------------- *)
\* fin.readline() at offset fpos: up to and including the next newline, or
\* to the end of the file
ReadLine(file, fpos) ==
    LET k == IndexOf(file, NL, fpos + 1) IN
    IF k = 0 THEN SubSeq(file, fpos + 1, Len(file))
    ELSE SubSeq(file, fpos + 1, k)

\* collect_transfers that does not put the cursor back: a trailing partial
\* line is dropped and the cursor is left at the end of the file
collect_transfers_no_seek(file, fpos, op) ==
    LET Complete(line) == line # <<>> /\ line[Len(line)] = NL
        appended[p \in 0..Len(file)] ==
            LET line == ReadLine(file, p) IN
            IF ~Complete(line) THEN <<>>
            ELSE IF ~parse_func(op, SubSeq(line, 1, Len(line) - 1)).ok
            THEN appended[p + Len(line)]
            ELSE <<parse_func(op, SubSeq(line, 1, Len(line) - 1)).rec>>
                     \o appended[p + Len(line)]
    IN  [transfers |-> appended[fpos], fpos |-> Len(file)]

\* collect_transfers that puts the cursor back where the call found it, so
\* that the next call reads the same lines again
collect_transfers_rewind(file, fpos, op) ==
    LET Complete(line) == line # <<>> /\ line[Len(line)] = NL
        appended[p \in 0..Len(file)] ==
            LET line == ReadLine(file, p) IN
            IF ~Complete(line) THEN <<>>
            ELSE IF ~parse_func(op, SubSeq(line, 1, Len(line) - 1)).ok
            THEN appended[p + Len(line)]
            ELSE <<parse_func(op, SubSeq(line, 1, Len(line) - 1)).rec>>
                     \o appended[p + Len(line)]
    IN  [transfers |-> appended[fpos], fpos |-> fpos]

\* collect_transfers that takes a trailing partial line for a whole one
collect_transfers_partial(file, fpos, op) ==
    LET appended[p \in 0..Len(file)] ==
            LET line == ReadLine(file, p) IN
            IF line = <<>> THEN <<>>
            ELSE IF ~parse_func(op, Strip(line)).ok
            THEN appended[p + Len(line)]
            ELSE <<parse_func(op, Strip(line)).rec>>
                     \o appended[p + Len(line)]
    IN  [transfers |-> appended[fpos], fpos |-> Len(file)]

\* collect_transfers(fin, parse_func) with the cursor at fpos: the loop reads
\* a line at the cursor p; an empty or unterminated line puts the cursor back
\* at p and ends the loop, a line that fails to parse is passed over, the
\* record of any other line is appended.  Gives the list returned and the
\* position the cursor is left at.
collect_transfers(file, fpos, op) ==
    LET Complete(line) == line # <<>> /\ line[Len(line)] = NL
        appended[p \in 0..Len(file)] ==
            LET line == ReadLine(file, p) IN
            IF ~Complete(line) THEN <<>>
            ELSE IF ~parse_func(op, SubSeq(line, 1, Len(line) - 1)).ok
            THEN appended[p + Len(line)]
            ELSE <<parse_func(op, SubSeq(line, 1, Len(line) - 1)).rec>>
                     \o appended[p + Len(line)]
        tell[p \in 0..Len(file)] ==
            LET line == ReadLine(file, p) IN
            IF ~Complete(line) THEN p ELSE tell[p + Len(line)]
    IN  [transfers |-> appended[fpos], fpos |-> tell[fpos]]

RECURSIVE FileLines(_, _)
\* "for line in f": every line of the file, the unterminated last one included
FileLines(file, fpos) ==
    LET line == ReadLine(file, fpos) IN
    IF line = <<>> THEN <<>>
    ELSE <<line>> \o FileLines(file, fpos + Len(line))

\* division that drops the fraction, as "/" does between two integers
RoundDown(n, d) == n \div d

\* int(round(n / d)) for n >= 0, d > 0: halves round away from zero
Round(n, d) == (2 * n + d) \div (2 * d)

\* sum of a sequence of integers
Sum[values \in Seq(Int)] ==
    IF values = <<>> THEN 0 ELSE Head(values) + Sum[Tail(values)]

\* numpy.mean(values) of a non-empty list, as the fraction <<sum, count>>
mean(values) == <<Sum[values], Len(values)>>

\* sorted copy of a list (what numpy.percentile works on)
Sorted[values \in Seq(Int)] ==
    IF values = <<>> THEN <<>>
    ELSE LET rest == Sorted[Tail(values)]
             below == Cardinality({i \in 1..Len(rest) :
                                     rest[i] < Head(values)})
         IN  SubSeq(rest, 1, below) \o <<Head(values)>>
                 \o SubSeq(rest, below + 1, Len(rest))

\* four times numpy.percentile(values, q) for q in 25, 50, 75, 100 and a
\* non-empty list: linear interpolation between the two sorted values next
\* to position q/100 * (n - 1); the factor four keeps the result an integer
percentile(values, q) ==
    LET a == Sorted[values]
        pos == (q \div 25) * (Len(a) - 1)
        lo == pos \div 4
        part == pos % 4
    IN  IF part = 0 THEN 4 * a[lo + 1]
        ELSE 4 * a[lo + 1] + part * (a[lo + 2] - a[lo + 1])

(* ------------------------------- state --------------------------------- *)
VARIABLES
    operation, timeout,                 \* OperationConfig
    clock,                              \* what time.time() returns
    pc, started, stop, ended,           \* Controller position and signals
    start_time, end_time, proc, returncode,
    err, results, summaries,
    procState, exitCode, pgid, sigterm, signalled,   \* OS view of processes
    log, pending, linesBegun,           \* transfer log and its writer
    mpc, messages, timeout_checkpoint,  \* Monitor thread
    snap, transfers, fpos, snapshots, waitStart, monitorFailed,
    lastRecordTime, gapSeen, seenArrival, \* arrival history of records
    collected                           \* every record returned to do_run

config == <<operation, timeout>>
controller == <<pc, started, ended, start_time, end_time, proc, returncode,
                err, results, summaries>>
os == <<procState, exitCode, pgid, sigterm, signalled>>
writer == <<log, pending, linesBegun>>
monitor == <<mpc, messages, timeout_checkpoint, snap, transfers, fpos,
             snapshots, waitStart, monitorFailed, seenArrival, collected>>
history == <<lastRecordTime, gapSeen>>
vars == <<config, clock, controller, stop, os, writer, monitor, history>>

NoError == [kind |-> None, pid |-> None, operation |-> None, code |-> 0]
\* <<>> stands for None in the latency fields
NoResults == [message_count |-> NoValue, message_rate |-> NoValue,
              message_latency |-> <<>>,
              message_latency_by_quartile |-> <<>>]
NoSnapshot == [timestamp |-> NoValue, message_total |-> 0,
               message_count |-> NoValue, message_rate |-> NoValue]

\* QuiverArrowCommand.__init__, _PeriodicStatusThread.__init__ and init()
Init ==
    /\ operation \in Operations
    /\ timeout \in 1..MaxTimeout
    /\ clock = 0
    /\ pc = "start_thread"
    /\ started = FALSE /\ stop = FALSE /\ ended = FALSE
    /\ start_time = NoValue /\ end_time = NoValue
    /\ proc = None /\ returncode = NoValue
    /\ err = NoError /\ results = NoResults /\ summaries = <<>>
    /\ procState = "none" /\ exitCode = NoValue
    /\ pgid = [p \in {"controller", "child"} |->
                  IF p = "controller" THEN "pg_controller" ELSE None]
    /\ sigterm = FALSE /\ signalled = {}
    /\ log = <<>> /\ pending = <<>> /\ linesBegun = 0
    /\ mpc = "unstarted" /\ messages = 0
    /\ timeout_checkpoint = <<NoValue, 0>>
    /\ snap = NoSnapshot /\ transfers = <<>> /\ fpos = 0
    /\ snapshots = <<>> /\ waitStart = 0 /\ monitorFailed = FALSE
    /\ lastRecordTime = 0 /\ gapSeen = FALSE /\ seenArrival = 0
    /\ collected = <<>>

\* the quiver-arrow process (main thread and daemon Monitor thread) exists
Alive == pc \notin {"done", "failed", "killed"}

(* ------------------------------- time ---------------------------------- *)
Tick ==
    /\ Alive
    /\ clock < MaxClock
    /\ clock' = clock + 1
    /\ UNCHANGED <<config, controller, stop, os, writer, monitor, history>>

(* ------------------------ the external process ------------------------- *)
\* the last newline-terminated line of a file that ends with a newline
LastLine(file) ==
    LET starts == {i \in 0..(Len(file) - 1) :
                      i = 0 \/ file[i] = NL} 
        s == CHOOSE i \in starts : \A j \in starts : j <= i
    IN  SubSeq(file, s + 1, Len(file) - 1)

\* sizes of the pieces in which a line reaches the file: its first byte,
\* everything but the terminator, or all that is left of it
ChunkSizes(rest, atLineStart) ==
    {k \in 1..Len(rest) :
        \/ k = Len(rest)
        \/ k = Len(rest) - 1
        \/ atLineStart /\ k = 1}

\* the process appends bytes to its standard output: a piece of the line it
\* is emitting
ProcWrite ==
    /\ Alive
    /\ procState = "running"
    /\ \E full \in IF pending # <<>> THEN {pending}
                   ELSE IF linesBegun < MaxLines
                        THEN {l \o <<NL>> : l \in OutputLines(operation)}
                        ELSE {} :
         \E k \in ChunkSizes(full, pending = <<>>) :
            /\ log' = log \o SubSeq(full, 1, k)
            /\ pending' = SubSeq(full, k + 1, Len(full))
            /\ linesBegun' = IF pending = <<>> THEN linesBegun + 1
                             ELSE linesBegun
            /\ IF k = Len(full) /\ parse_func(operation, LastLine(log')).ok
               THEN /\ lastRecordTime' = clock
                    /\ gapSeen' = (gapSeen \/ clock - lastRecordTime > timeout)
               ELSE UNCHANGED history
    /\ UNCHANGED <<config, clock, controller, stop, os, monitor>>

\* the process exits by itself or, once signalled, on the terminate signal
ProcExit ==
    /\ Alive
    /\ procState = "running"
    /\ procState' = "zombie"
    /\ exitCode' \in IF sigterm THEN {0, 1, -SIGTERM} ELSE {0, 1}
    /\ UNCHANGED <<pgid, sigterm, signalled>>
    /\ UNCHANGED <<config, clock, controller, stop, writer, monitor, history>>

(* ----------------------------- Controller ------------------------------ *)
\* an exception leaves run(): the interpreter exits with a non-zero status
Raise(kind, pid, op, code) ==
    /\ pc' = "failed"
    /\ err' = [kind |-> kind, pid |-> pid, operation |-> op, code |-> code]

\* exit interpretation that also lets exit code 1 pass as success
ExitedNormallyLax(code) == code \in {0, 1}

\* size check that never fires
NoTransfersNever(file) == FALSE

\* process group Popen(args, stdout=fout) gives the child: no preexec_fn is
\* passed, so the child stays in the group of the process that forked it
PopenPgid(parentPgid) == parentPgid

\* os.getpgid(pid)
getpgid(p) == pgid[p]

\* the processes a killpg(group, sig) delivers to
GroupMembers(group) == {p \in DOMAIN pgid : pgid[p] = group}

\* exit interpretation of run(): returncode == 0
ExitedNormally(code) == code = 0

\* os.path.getsize(self.transfers_file) == 0
NoTransfers(file) == Len(file) = 0

\* self.periodic_status_thread.start()
StartThread ==
    /\ pc = "start_thread"
    /\ pc' = "popen"
    /\ mpc' = "wait_started"
    /\ UNCHANGED <<started, ended, start_time, end_time, proc, returncode,
                   err, results, summaries>>
    /\ UNCHANGED <<messages, timeout_checkpoint, snap, transfers, fpos,
                   snapshots, waitStart, monitorFailed, seenArrival,
                   collected>>
    /\ UNCHANGED <<config, clock, stop, os, writer, history>>

\* open(transfers_file, "w") and Popen: the process runs, or the spawn fails
Popen ==
    /\ pc = "popen"
    /\ \/ /\ proc' = "child"
          /\ procState' = "running"
          /\ pgid' = [pgid EXCEPT !["child"] = PopenPgid(pgid["controller"])]
          /\ pc' = "set_started"
          /\ lastRecordTime' = clock
          /\ UNCHANGED <<err, gapSeen>>
       \/ /\ Raise("OSError", None, operation, 0)
          /\ UNCHANGED <<proc, procState, pgid, history>>
    /\ log' = <<>>
    /\ UNCHANGED <<started, ended, start_time, end_time, returncode, results,
                   summaries, exitCode, sigterm, signalled, pending,
                   linesBegun>>
    /\ UNCHANGED <<config, clock, stop, monitor>>

\* self.started.set()
SetStarted ==
    /\ pc = "set_started"
    /\ started' = TRUE
    /\ pc' = "set_start_time"
    /\ UNCHANGED <<ended, start_time, end_time, proc, returncode, err,
                   results, summaries>>
    /\ UNCHANGED <<config, clock, stop, os, writer, monitor, history>>

\* self.start_time = time.time()
SetStartTime ==
    /\ pc = "set_start_time"
    /\ start_time' = clock
    /\ pc' = "poll"
    /\ UNCHANGED <<started, ended, end_time, proc, returncode, err, results,
                   summaries>>
    /\ UNCHANGED <<config, clock, stop, os, writer, monitor, history>>

\* while self.proc.poll() == None: an exited child is reaped here
Poll ==
    /\ pc = "poll"
    /\ IF procState = "zombie"
       THEN /\ procState' = "reaped"
            /\ returncode' = exitCode
            /\ pc' = "set_end_time"
       ELSE /\ pc' = "wait_stop"
            /\ UNCHANGED <<procState, returncode>>
    /\ UNCHANGED <<started, ended, start_time, end_time, proc, err, results,
                   summaries, exitCode, pgid, sigterm, signalled>>
    /\ UNCHANGED <<config, clock, stop, writer, monitor, history>>

\* a wait that consumes the signal it saw
WaitStopClears ==
    /\ pc = "wait_stop"
    /\ pc' = IF stop THEN "killpg" ELSE "poll"
    /\ stop' = FALSE
    /\ UNCHANGED <<started, ended, start_time, end_time, proc, returncode,
                   err, results, summaries>>
    /\ UNCHANGED <<config, clock, os, writer, monitor, history>>

\* if self.stop.wait(0.1): true at once when stop is set, false after 0.1 s
WaitStop ==
    /\ pc = "wait_stop"
    /\ pc' = IF stop THEN "killpg" ELSE "poll"
    /\ UNCHANGED <<started, ended, start_time, end_time, proc, returncode,
                   err, results, summaries>>
    /\ UNCHANGED <<config, clock, stop, os, writer, monitor, history>>

\* os.killpg(os.getpgid(self.proc.pid), SIGTERM): every member of the group
\* gets the signal; quiver-arrow installs no handler, so if it is a member
\* itself the default disposition ends it
Killpg ==
    /\ pc = "killpg"
    /\ LET members == GroupMembers(getpgid(proc)) IN
       /\ signalled' = signalled \cup members
       /\ sigterm' = (sigterm \/ "child" \in members)
       /\ pc' = IF "controller" \in members THEN "killed" ELSE "poll"
    /\ UNCHANGED <<started, ended, start_time, end_time, proc, returncode,
                   err, results, summaries, procState, exitCode, pgid>>
    /\ UNCHANGED <<config, clock, stop, writer, monitor, history>>

\* self.end_time = time.time()
SetEndTime ==
    /\ pc = "set_end_time"
    /\ end_time' = clock
    /\ pc' = "set_ended"
    /\ UNCHANGED <<started, ended, start_time, proc, returncode, err, results,
                   summaries>>
    /\ UNCHANGED <<config, clock, stop, os, writer, monitor, history>>

\* self.ended.set()
SetEnded ==
    /\ pc = "set_ended"
    /\ ended' = TRUE
    /\ pc' = "check_returncode"
    /\ UNCHANGED <<started, start_time, end_time, proc, returncode, err,
                   results, summaries>>
    /\ UNCHANGED <<config, clock, stop, os, writer, monitor, history>>

\* if self.proc.returncode == 0: ... else: raise QuiverError(msg)
CheckReturncode ==
    /\ pc = "check_returncode"
    /\ IF ExitedNormally(returncode)
       THEN pc' = "check_size" /\ UNCHANGED err
       ELSE Raise("ProcessExitError", proc, operation, returncode)
    /\ UNCHANGED <<started, ended, start_time, end_time, proc, returncode,
                   results, summaries>>
    /\ UNCHANGED <<config, clock, stop, os, writer, monitor, history>>

\* if os.path.getsize(self.transfers_file) == 0: raise QuiverError
CheckSize ==
    /\ pc = "check_size"
    /\ IF NoTransfers(log)
       THEN Raise("NoTransfersError", None, operation, 0)
       ELSE pc' = "compute" /\ UNCHANGED err
    /\ UNCHANGED <<started, ended, start_time, end_time, proc, returncode,
                   results, summaries>>
    /\ UNCHANGED <<config, clock, stop, os, writer, monitor, history>>

\* the final pass over the whole log: every line goes through the parser
\* with no handler around it
FinalPassFails(file, op) ==
    \E i \in 1..Len(FileLines(file, 0)) :
        ~parse_func(op, FileLines(file, 0)[i]).ok

\* latency = receive_time - send_time of every line of a log whose lines all
\* parse as receiver records
Latencies(file) ==
    [i \in 1..Len(FileLines(file, 0)) |->
        LET rec == parse_receive[FileLines(file, 0)[i]].rec IN rec[3] - rec[2]]

\* compute_sender_results / compute_receiver_results (and print_results)
Compute ==
    /\ pc = "compute"
    /\ LET count == Len(FileLines(log, 0))
           duration == end_time - start_time
       IN  IF FinalPassFails(log, operation)
           THEN Raise("ValueError", None, operation, 0) /\ UNCHANGED results
           ELSE IF duration = 0
           THEN Raise("ZeroDivisionError", None, operation, 0)
                /\ UNCHANGED results
           ELSE /\ results' =
                     IF operation = "send"
                     THEN [message_count |-> count,
                           message_rate |-> Round(count, duration),
                           message_latency |-> <<>>,
                           message_latency_by_quartile |-> <<>>]
                     ELSE [message_count |-> count,
                           message_rate |-> Round(count, duration),
                           message_latency |-> mean(Latencies(log)),
                           message_latency_by_quartile |->
                               <<percentile(Latencies(log), 25),
                                 percentile(Latencies(log), 50),
                                 percentile(Latencies(log), 75),
                                 percentile(Latencies(log), 100)>>]
                /\ pc' = "save_summary"
                /\ UNCHANGED err
    /\ UNCHANGED <<started, ended, start_time, end_time, proc, returncode,
                   summaries>>
    /\ UNCHANGED <<config, clock, stop, os, writer, monitor, history>>

\* save_summary that dumps the document twice
SaveSummaryTwice ==
    /\ pc = "save_summary"
    /\ LET doc == [config |-> [operation |-> operation,
                               timeout |-> timeout],
                   results |->
                       [message_count |-> results.message_count,
                        message_rate |-> results.message_rate]]
       IN  summaries' = summaries \o <<doc, doc>>
    /\ pc' = "compress"
    /\ UNCHANGED <<started, ended, start_time, end_time, proc, returncode,
                   err, results>>
    /\ UNCHANGED <<config, clock, stop, os, writer, monitor, history>>

\* save_summary(): one json.dump of config and of the results group, which
\* holds message_count and message_rate
SaveSummary ==
    /\ pc = "save_summary"
    /\ summaries' = Append(summaries,
                       [config |-> [operation |-> operation,
                                    timeout |-> timeout],
                        results |->
                            [message_count |-> results.message_count,
                             message_rate |-> results.message_rate]])
    /\ pc' = "compress"
    /\ UNCHANGED <<started, ended, start_time, end_time, proc, returncode,
                   err, results>>
    /\ UNCHANGED <<config, clock, stop, os, writer, monitor, history>>

\* compress_output(), then run() returns
CompressOutput ==
    /\ pc = "compress"
    /\ pc' = "done"
    /\ UNCHANGED <<started, ended, start_time, end_time, proc, returncode,
                   err, results, summaries>>
    /\ UNCHANGED <<config, clock, stop, os, writer, monitor, history>>

\* exit status of quiver-arrow once it has ended
ExitStatus ==
    CASE pc = "done" -> 0
      [] pc = "failed" -> 1
      [] pc = "killed" -> 128 + SIGTERM

(* ------------------------------- Monitor ------------------------------- *)
\* capture_proc_info(): /proc/<pid>/stat can be opened until the child has
\* been reaped
ProcStatReadable == procState \in {"running", "zombie"}

\* check_timeout that fires as soon as the timeout is reached, not exceeded
check_timeout_eager(now, checkpoint, msgs, tmo) ==
    LET then == checkpoint[1]
        messages_then == checkpoint[2]
        elapsed == now - then
    IN  IF msgs = messages_then /\ elapsed >= tmo
        THEN [stop |-> TRUE, checkpoint |-> checkpoint]
        ELSE [stop |-> FALSE,
              checkpoint |-> <<IF msgs > messages_then THEN now ELSE then,
                               msgs>>]

\* check_timeout that lets one more tick period pass before it fires
check_timeout_late(now, checkpoint, msgs, tmo) ==
    LET then == checkpoint[1]
        messages_then == checkpoint[2]
        elapsed == now - then
    IN  IF msgs = messages_then /\ elapsed > tmo + TickPeriod
        THEN [stop |-> TRUE, checkpoint |-> checkpoint]
        ELSE [stop |-> FALSE,
              checkpoint |-> <<IF msgs > messages_then THEN now ELSE then,
                               msgs>>]

\* check_timeout(now): whether stop is set, and the checkpoint afterwards
check_timeout(now, checkpoint, msgs, tmo) ==
    LET then == checkpoint[1]
        messages_then == checkpoint[2]
        elapsed == now - then
    IN  IF msgs = messages_then /\ elapsed > tmo
        THEN [stop |-> TRUE, checkpoint |-> checkpoint]
        ELSE [stop |-> FALSE,
              checkpoint |-> <<IF msgs > messages_then THEN now ELSE then,
                               msgs>>]

\* a Monitor that goes on without waiting for started
WaitStartedNoWait ==
    /\ Alive
    /\ mpc = "wait_started"
    /\ mpc' = "initial_snapshot"
    /\ UNCHANGED <<messages, timeout_checkpoint, snap, transfers, fpos,
                   snapshots, waitStart, monitorFailed, seenArrival,
                   collected>>
    /\ UNCHANGED <<config, clock, controller, stop, os, writer, history>>

\* self.command.started.wait()
WaitStarted ==
    /\ Alive
    /\ mpc = "wait_started"
    /\ started
    /\ mpc' = "initial_snapshot"
    /\ UNCHANGED <<messages, timeout_checkpoint, snap, transfers, fpos,
                   snapshots, waitStart, monitorFailed, seenArrival,
                   collected>>
    /\ UNCHANGED <<config, clock, controller, stop, os, writer, history>>

\* snap = _StatusSnapshot(self, None); the checkpoint; open(transfers_file).
\* An exception here reaches run(), whose handler calls sys.exit(1) in the
\* Monitor thread: that ends this thread only.
InitialSnapshot ==
    /\ Alive
    /\ mpc = "initial_snapshot"
    /\ IF proc = None \/ ~ProcStatReadable
       THEN /\ mpc' = "dead"
            /\ monitorFailed' = TRUE
            /\ UNCHANGED <<snap, timeout_checkpoint, fpos, waitStart>>
       ELSE /\ snap' = [NoSnapshot EXCEPT !.timestamp = clock]
            /\ timeout_checkpoint' = <<clock, messages>>
            /\ fpos' = 0
            /\ waitStart' = clock
            /\ mpc' = "wait_tick"
            /\ UNCHANGED monitorFailed
    /\ UNCHANGED <<messages, transfers, snapshots, seenArrival, collected>>
    /\ UNCHANGED <<config, clock, controller, stop, os, writer, history>>

\* a Monitor that, once it has requested the stop, sets ended itself
WaitTickEnds ==
    /\ Alive
    /\ mpc = "wait_tick"
    /\ \/ ended /\ mpc' = "done" /\ UNCHANGED ended
       \/ ~ended /\ stop /\ mpc' = "done" /\ ended' = TRUE
       \/ /\ ~ended /\ ~stop /\ clock >= waitStart + TickPeriod
          /\ mpc' = "collect" /\ UNCHANGED ended
    /\ UNCHANGED <<messages, timeout_checkpoint, snap, transfers, fpos,
                   snapshots, waitStart, monitorFailed, seenArrival,
                   collected>>
    /\ UNCHANGED <<pc, started, start_time, end_time, proc, returncode,
                   err, results, summaries>>
    /\ UNCHANGED <<config, clock, stop, os, writer, history>>

\* while not self.command.ended.wait(1)
WaitTick ==
    /\ Alive
    /\ mpc = "wait_tick"
    /\ \/ ended /\ mpc' = "done"
       \/ ~ended /\ clock >= waitStart + TickPeriod /\ mpc' = "collect"
    /\ UNCHANGED <<messages, timeout_checkpoint, snap, transfers, fpos,
                   snapshots, waitStart, monitorFailed, seenArrival,
                   collected>>
    /\ UNCHANGED <<config, clock, controller, stop, os, writer, history>>

\* transfers = self.collect_transfers(fin, parse_func);
\* self.messages += len(transfers)
Collect ==
    /\ Alive
    /\ mpc = "collect"
    /\ \E r \in {collect_transfers(log, fpos, operation)} :
          /\ transfers' = r.transfers
          /\ fpos' = r.fpos
          /\ messages' = messages + Len(r.transfers)
          /\ collected' = collected \o r.transfers
    /\ seenArrival' = lastRecordTime
    /\ mpc' = "snapshot"
    /\ UNCHANGED <<timeout_checkpoint, snap, snapshots, waitStart,
                   monitorFailed>>
    /\ UNCHANGED <<config, clock, controller, stop, os, writer, history>>

\* a snapshot whose running total is the size of its own batch
capture_transfers_batch_total(previous, timestamp, total, batch) ==
    [timestamp |-> timestamp,
     message_total |-> Len(batch),
     message_count |-> Len(batch),
     message_rate |-> Round(Len(batch), timestamp - previous.timestamp)]

\* _StatusSnapshot(thread, previous) followed by capture_transfers(batch):
\* the fields that save() writes, with total = thread.messages
capture_transfers(previous, timestamp, total, batch) ==
    [timestamp |-> timestamp,
     message_total |-> total,
     message_count |-> Len(batch),
     message_rate |-> Round(Len(batch), timestamp - previous.timestamp)]

\* the rest of the tick: _StatusSnapshot(self, snap) (IOError: break),
\* capture_transfers, save, check_timeout(snap.timestamp).  The wait before
\* the tick makes the period since the previous snapshot at least one.
Snapshot ==
    /\ Alive
    /\ mpc = "snapshot"
    /\ IF ~ProcStatReadable
       THEN /\ mpc' = "done"
            /\ UNCHANGED <<snap, snapshots, timeout_checkpoint, stop,
                           waitStart, monitorFailed>>
       ELSE LET next == capture_transfers(snap, clock, messages, transfers)
                r == check_timeout(clock, timeout_checkpoint, messages,
                                   timeout)
            IN  /\ snap' = next
                /\ snapshots' = Append(snapshots, next)
                /\ stop' = (stop \/ r.stop)
                /\ timeout_checkpoint' = r.checkpoint
                /\ waitStart' = clock
                /\ mpc' = "wait_tick"
                /\ UNCHANGED monitorFailed
    /\ UNCHANGED <<messages, transfers, fpos, seenArrival, collected>>
    /\ UNCHANGED <<config, clock, controller, os, writer, history>>

(* ---------------------------- specification ---------------------------- *)
Next ==
    \/ Tick
    \/ ProcWrite
    \/ ProcExit
    \/ StartThread
    \/ Popen
    \/ SetStarted
    \/ SetStartTime
    \/ Poll
    \/ WaitStop
    \/ Killpg
    \/ SetEndTime
    \/ SetEnded
    \/ CheckReturncode
    \/ CheckSize
    \/ Compute
    \/ SaveSummary
    \/ CompressOutput
    \/ WaitStarted
    \/ InitialSnapshot
    \/ WaitTick
    \/ Collect
    \/ Snapshot

Spec == Init /\ [][Next]_vars

\* whichever step the Monitor thread is at
MonitorStep ==
    WaitStarted \/ InitialSnapshot \/ WaitTick \/ Collect \/ Snapshot

\* the Monitor thread gets to run and time passes
LiveSpec ==
    /\ Init /\ [][Next]_vars
    /\ WF_vars(Tick)
    /\ WF_vars(MonitorStep)

(* ----------------- the statistics pass, taken alone -------------------- *)
\* the file made of the given lines, each with its terminator
Flatten[lines \in Seq(Seq(STRING))] ==
    IF lines = <<>> THEN <<>>
    ELSE Head(lines) \o <<NL>> \o Flatten[Tail(lines)]

\* finished logs of one to MaxRecords lines
FinishedLogs(op) ==
    {Flatten[lines] :
        lines \in UNION {[1..n -> LogLines(op)] : n \in 1..MaxRecords}}

\* a run at the point where run() starts the statistics pass: the process
\* has exited with code 0 and been reaped, ended is set, the log is not
\* empty, and the Monitor has left its loop without having ticked
ComputeInit ==
    /\ operation \in Operations
    /\ timeout \in 1..MaxTimeout
    /\ log \in FinishedLogs(operation)
    /\ start_time = 0
    /\ end_time \in 0..MaxDuration
    /\ clock = end_time
    /\ pc = "compute"
    /\ started = TRUE /\ stop = FALSE /\ ended = TRUE
    /\ proc = "child" /\ returncode = 0
    /\ err = NoError /\ results = NoResults /\ summaries = <<>>
    /\ procState = "reaped" /\ exitCode = 0
    /\ pgid = [p \in {"controller", "child"} |-> "pg_controller"]
    /\ sigterm = FALSE /\ signalled = {}
    /\ pending = <<>>
    /\ linesBegun = Cardinality({i \in 1..Len(log) : log[i] = NL})
    /\ mpc = "done" /\ messages = 0
    /\ timeout_checkpoint = <<0, 0>>
    /\ snap = [NoSnapshot EXCEPT !.timestamp = 0]
    /\ transfers = <<>> /\ fpos = 0
    /\ snapshots = <<>> /\ waitStart = 0 /\ monitorFailed = FALSE
    /\ lastRecordTime = 0 /\ gapSeen = FALSE /\ seenArrival = 0
    /\ collected = <<>>

ComputeNext == Compute \/ SaveSummary \/ CompressOutput

ComputeSpec == ComputeInit /\ [][ComputeNext]_vars

(* ------------------------------ properties ----------------------------- *)
\* number of well-formed, newline-terminated lines of a file
Records(file, op) == Len(collect_transfers(file, 0, op).transfers)

\* the Controller is inside "while self.proc.poll() == None"
InPollLoop == pc \in {"poll", "wait_stop", "killpg"}

(* C1, as claimed: besides the two tick conditions below, a run in which    *)
(* records keep arriving at intervals no longer than the timeout is never   *)
(* stopped: whenever stop is set, some gap between consecutive arrivals     *)
(* (the first counted from the spawn, the last still open) exceeded the     *)
(* timeout.                                                                 *)
C1_AsClaimed ==
    stop => (gapSeen \/ clock - lastRecordTime > timeout)

(* C1, amended: stop is set only by a tick at which message_total equals    *)
(* the checkpoint's message_total and the tick's timestamp is more than the *)
(* timeout after the checkpoint's timestamp; the checkpoint's timestamp     *)
(* moves only at a tick where message_total has grown; and the tick that    *)
(* sets stop is more than the timeout after the arrival of the latest       *)
(* record that was in the log when that tick read it.                       *)
C1_StallTimeoutSafety ==
    /\ [][(~stop /\ stop') =>
            /\ mpc = "snapshot"
            /\ messages = timeout_checkpoint[2]
            /\ clock - timeout_checkpoint[1] > timeout
            /\ clock - seenArrival > timeout]_vars
    /\ [][(mpc # "initial_snapshot"
             /\ timeout_checkpoint'[1] # timeout_checkpoint[1]) =>
            /\ mpc = "snapshot"
            /\ messages > timeout_checkpoint[2]
            /\ timeout_checkpoint'[1] = clock]_vars

\* the Monitor stopped a run after a record had moved the checkpoint
C1_Witness == stop /\ timeout_checkpoint[2] > 0

(* C2: within the modelled time span, if the process keeps running and no   *)
(* further record reaches the log after the Monitor's checkpoint is up to   *)
(* date, the Monitor sets stop; and it does so at the first tick whose      *)
(* timestamp is more than the timeout after the checkpoint.  Stated under   *)
(* LiveSpec: the Monitor thread and the clock are treated fairly.           *)
C2_StallTimeoutLiveness ==
    /\ ( /\ started /\ procState = "running"
         /\ mpc \in {"wait_tick", "collect", "snapshot"}
         /\ messages = timeout_checkpoint[2]
         /\ Records(log, operation) = timeout_checkpoint[2]
         /\ timeout_checkpoint[1] + timeout < MaxClock )
       ~> ( \/ stop
            \/ procState # "running"
            \/ Records(log, operation) > timeout_checkpoint[2] )
    /\ [][( /\ mpc = "snapshot" /\ mpc' = "wait_tick"
            /\ messages = timeout_checkpoint[2]
            /\ clock - timeout_checkpoint[1] > timeout ) => stop']_vars

\* stop was set on a process that is running and never wrote a record
C2_Witness == stop /\ procState = "running" /\ log = <<>>

(* C3: once the Monitor has set stop, no results are computed, no summary   *)
(* is written and the run does not end with status 0.                       *)
C3_TimeoutIsTerminal ==
    stop => (results = NoResults /\ summaries = <<>> /\ pc # "done")

(* C4: the child is in a process group of its own, and the terminate signal *)
(* never reaches the Controller/Monitor process.                            *)
C4_OwnProcessGroup ==
    /\ proc # None => getpgid("child") # getpgid("controller")
    /\ "controller" \notin signalled

(* C5: after the terminate signal has been sent and while the process is    *)
(* alive the Controller is still in its poll loop; ended is set only after  *)
(* the exit has been observed.                                              *)
C5_TerminateThenKeepPolling ==
    /\ (sigterm /\ procState = "running") => InPollLoop
    /\ ended => procState = "reaped"

(* C6: exit code 0 with an empty transfer log ends in NoTransfersError,     *)
(* with no results computed and no summary written.                         *)
C6_NoTransfers ==
    (ended /\ returncode = 0 /\ Len(log) = 0) =>
        /\ results = NoResults
        /\ summaries = <<>>
        /\ pc \in {"check_returncode", "check_size", "failed"}
        /\ pc = "failed" => err.kind = "NoTransfersError"

\* a run that ended with NoTransfersError
C6_Witness ==
    pc = "failed" /\ err.kind = "NoTransfersError" /\ returncode = 0

(* C7: a non-zero exit code ends the run in a ProcessExitError naming pid,  *)
(* operation and code, raised after end_time was captured and ended set,    *)
(* with no results and no summary; only exit code 0 lets the run go on.     *)
C7_ProcessExit ==
    /\ (procState = "reaped" /\ returncode # 0) =>
          /\ results = NoResults
          /\ summaries = <<>>
          /\ pc \in {"set_end_time", "set_ended", "check_returncode",
                     "failed"}
          /\ pc = "failed" =>
                /\ err = [kind |-> "ProcessExitError", pid |-> proc,
                          operation |-> operation, code |-> returncode]
                /\ ended
                /\ end_time # NoValue
    /\ pc \in {"check_size", "compute", "save_summary", "compress", "done"}
          => returncode = 0

\* a run that ended with ProcessExitError
C7_Witness ==
    pc = "failed" /\ err.kind = "ProcessExitError" /\ returncode = 1

(* C8: after an unexpected failure of the Monitor the run does not finish   *)
(* with status 0 and writes no summary.                                     *)
C8_MonitorFailureAborts ==
    monitorFailed => (pc # "done" /\ summaries = <<>>)

(* C9: a failed process-status read never surfaces as a Monitor failure and *)
(* never ends the Monitor loop: the loop is left only once ended is set.    *)
C9_AccountingErrorTransient ==
    /\ ~monitorFailed
    /\ mpc = "done" => ended

(* C10: malformed lines are skipped and never fatal: the Monitor has        *)
(* counted every well-formed line before its cursor, the final pass counts  *)
(* every well-formed line, and no run fails on a line that does not parse.  *)
C10_MalformedLineNeverFatal ==
    /\ messages = Records(SubSeq(log, 1, fpos), operation)
    /\ err.kind # "ValueError"
    /\ pc \in {"save_summary", "compress", "done"} =>
          results.message_count = Records(log, operation)

\* positions of the line terminators of a file within a..b
Terminators(file, a, b) == {i \in a..b : file[i] = NL}

\* the Monitor step that calls collect_transfers
CollectStep == mpc = "collect" /\ mpc' = "snapshot"

(* C11: the reader's cursor is always at the start of the file or just      *)
(* after a line terminator; a call of collect_transfers never moves it      *)
(* back, leaves it where no terminator follows in the log (at the end of    *)
(* the file or at the first byte of the trailing partial line), and returns *)
(* no more records than there are terminated lines between the old and the  *)
(* new cursor.                                                              *)
C11_CursorPastTerminatedLines ==
    /\ [](fpos \in 0..Len(log) /\ (fpos = 0 \/ log[fpos] = NL))
    /\ [][CollectStep =>
            /\ fpos' >= fpos
            /\ Terminators(log, fpos' + 1, Len(log)) = {}
            /\ Len(transfers') <=
                  Cardinality(Terminators(log, fpos + 1, fpos'))]_vars

\* a read has passed a whole line and stopped before a partial one
C11_Witness ==
    /\ mpc = "snapshot" /\ fpos > 0 /\ fpos < Len(log)
    /\ Terminators(log, fpos + 1, Len(log)) = {}

(* C12: however the writes were split and whenever the reads so far took    *)
(* place, the records returned so far followed by the records of one more   *)
(* read are exactly the records of a single read of the whole log from its  *)
(* start; and the cursor then sits where that single read leaves it.        *)
C12_SplitWriteEquivalence ==
    LET next == collect_transfers(log, fpos, operation)
        single == collect_transfers(log, 0, operation)
    IN  /\ collected \o next.transfers = single.transfers
        /\ next.fpos = single.fpos

\* after a read that returned a record, the next read is about to start on
\* a log that ends mid-line
C12_Witness ==
    /\ mpc = "collect"
    /\ collected # <<>>
    /\ fpos < Len(log)
    /\ Terminators(log, fpos + 1, Len(log)) = {}

(* C13: at most one summary is ever written; one exists only once ended is  *)
(* set, the exit code is 0, the log is non-empty and the results have been  *)
(* computed, and it carries those results; a run that returns normally has  *)
(* written exactly one.                                                     *)
C13_SummaryOnce ==
    /\ Len(summaries) <= 1
    /\ summaries # <<>> =>
          /\ ended /\ returncode = 0 /\ Len(log) > 0
          /\ pc \in {"compress", "done"}
          /\ results # NoResults
          /\ summaries[1].results.message_count = results.message_count
          /\ summaries[1].results.message_rate = results.message_rate
    /\ pc = "done" => Len(summaries) = 1

\* a run that returned normally
C13_Witness == pc = "done" /\ Len(summaries) = 1 /\ ~stop

(* C16: the results group of every summary holds message_count and          *)
(* message_rate, and holds the two latency fields exactly when the          *)
(* operation is receive.                                                    *)
C16_SummaryResultsFields ==
    \A i \in 1..Len(summaries) :
        /\ {"message_count", "message_rate"}
              \subseteq DOMAIN summaries[i].results
        /\ {"message_latency", "message_latency_by_quartile"}
              \subseteq DOMAIN summaries[i].results
              <=> summaries[i].config.operation = "receive"
        /\ {"message_latency", "message_latency_by_quartile"}
              \cap DOMAIN summaries[i].results = {}
              <=> summaries[i].config.operation = "send"

(* C17: whenever started is set start_time is set, and whenever ended is    *)
(* set end_time is set.                                                     *)
C17_TimestampsBeforeSignals ==
    /\ started => start_time # NoValue
    /\ ended => end_time # NoValue

(* C18: no step clears started, stop or ended; ended is set only when       *)
(* started is; started and ended change only in the Controller's steps that *)
(* set them, and stop changes only in the Monitor's check of the timeout.   *)
C18_SignalsMonotonic ==
    /\ [][/\ started => started'
          /\ stop => stop'
          /\ ended => ended']_vars
    /\ [](ended => started)
    /\ [][/\ started' # started => (pc = "set_started" /\ mpc' = mpc)
          /\ ended' # ended => (pc = "set_ended" /\ mpc' = mpc)
          /\ stop' # stop => (mpc = "snapshot" /\ pc' = pc)]_vars

\* all three signals have been set
C18_Witness == started /\ stop /\ ended

\* every line of the file is terminated and parses
WellFormed(file, op) ==
    /\ file # <<>> /\ file[Len(file)] = NL
    /\ Records(file, op) = Cardinality(Terminators(file, 1, Len(file)))

(* C14: for a well-formed sender log of N records and a duration D > 0 the  *)
(* statistics pass does not fail, message_count is N, message_rate is the   *)
(* integer nearest to N / D (the upper one when N / D lies half-way) and    *)
(* the latency fields are left undefined.                                   *)
C14_SenderResults ==
    LET N == Cardinality(Terminators(log, 1, Len(log)))
        D == end_time - start_time
    IN  ( /\ operation = "send" /\ pc # "compute"
          /\ WellFormed(log, "send") /\ D > 0 ) =>
            /\ pc # "failed"
            /\ results.message_count = N
            /\ 2 * results.message_rate * D - D <= 2 * N
            /\ 2 * N < 2 * results.message_rate * D + D
            /\ results.message_latency = <<>>
            /\ results.message_latency_by_quartile = <<>>

\* three records over two time units: the rate lies half-way and is 2
C14_Witness ==
    /\ operation = "send" /\ pc = "done"
    /\ end_time - start_time = 2
    /\ results.message_count = 3 /\ results.message_rate = 2

(* C15: for any receiver log with at least one record that parses and a     *)
(* duration above zero, the statistics pass yields a mean latency equal to  *)
(* the arithmetic mean of receive_time - send_time over the records that    *)
(* parse (negative differences kept), and quartiles with                    *)
(* minimum <= p25 <= p50 <= p75 <= p100 = maximum latency.                  *)
C15_ReceiverLatency ==
    LET recs == collect_transfers(log, 0, "receive").transfers
        lat == [i \in 1..Len(recs) |-> recs[i][3] - recs[i][2]]
        q == results.message_latency_by_quartile
    IN  ( /\ operation = "receive" /\ pc # "compute"
          /\ log # <<>> /\ log[Len(log)] = NL
          /\ recs # <<>> /\ end_time - start_time > 0 ) =>
            /\ pc # "failed"
            /\ results.message_latency[1] * Len(lat)
                  = Sum[lat] * results.message_latency[2]
            /\ \A i \in 1..Len(lat) : 4 * lat[i] <= q[4]
            /\ \E i \in 1..Len(lat) : 4 * lat[i] = q[4]
            /\ \A i \in 1..Len(lat) : 4 * lat[i] >= q[1] => q[1] <= q[2]
            /\ q[1] <= q[2] /\ q[2] <= q[3] /\ q[3] <= q[4]

(* C19: in the series of saved snapshots every message_total is the         *)
(* predecessor's message_total plus the snapshot's own message_count (the   *)
(* first one's total is its count), so the totals never decrease; between   *)
(* ticks the last saved total is the number of records read so far, so      *)
(* each count covers exactly the records read since the snapshot before.    *)
C19_SnapshotSeries ==
    /\ \A i \in 1..Len(snapshots) :
          /\ snapshots[i].message_count >= 0
          /\ snapshots[i].message_total =
                (IF i = 1 THEN 0 ELSE snapshots[i - 1].message_total)
                + snapshots[i].message_count
    /\ (mpc \in {"wait_tick", "collect"} /\ snapshots # <<>>) =>
          snapshots[Len(snapshots)].message_total = Len(collected)
    /\ (mpc = "snapshot" /\ snapshots # <<>>) =>
          snapshots[Len(snapshots)].message_total + Len(transfers)
            = Len(collected)
    /\ (mpc = "snapshot" /\ snapshots = <<>>) => transfers = collected

\* two saved snapshots, each with records of its own
C19_Witness ==
    /\ Len(snapshots) >= 2
    /\ snapshots[1].message_count > 0
    /\ snapshots[2].message_count > 0

\* a step of the Monitor thread: its position changes once it is running
MonitorMoves == mpc # "unstarted" /\ mpc' # mpc

(* C20: the Monitor never controls the process's lifecycle: none of its     *)
(* steps signals the process or changes proc, start_time, end_time,         *)
(* started or ended (nor anything else the Controller or the operating      *)
(* system holds); the only shared state it changes is stop, and it only     *)
(* ever sets it.                                                            *)
C20_MonitorOnlySetsStop ==
    [][MonitorMoves =>
          /\ UNCHANGED <<proc, start_time, end_time, started, ended>>
          /\ UNCHANGED <<sigterm, signalled, procState, exitCode, pgid>>
          /\ UNCHANGED <<pc, returncode, err, results, summaries>>
          /\ (stop' # stop => stop')]_vars

\* the Monitor has set stop and gone back to waiting; the process has not
\* been signalled and still runs
C20_Witness ==
    /\ stop /\ mpc = "wait_tick"
    /\ ~sigterm /\ signalled = {} /\ procState = "running" /\ ~ended

\* the Monitor thread has been started and has not got past started.wait()
WaitingForStart == mpc = "wait_started"

(* C21: the Monitor thread is started before the process is spawned and     *)
(* does nothing until started is set: while it waits it has read no log     *)
(* data, built no snapshot, set no checkpoint and not set stop; once it is  *)
(* past the wait, started is set and the process handle is assigned, so     *)
(* every snapshot is built with proc not None; after a failed spawn         *)
(* started is not set and the Monitor is still waiting.                     *)
C21_MonitorWaitsForStart ==
    /\ (proc # None \/ pc \notin {"start_thread", "popen"}) =>
          mpc # "unstarted"
    /\ mpc \in {"unstarted", "wait_started"} =>
          /\ fpos = 0 /\ messages = 0 /\ transfers = <<>>
          /\ collected = <<>>
          /\ snap = NoSnapshot /\ snapshots = <<>>
          /\ timeout_checkpoint = <<NoValue, 0>>
          /\ ~stop /\ ~monitorFailed
    /\ mpc \notin {"unstarted", "wait_started"} => started /\ proc # None
    /\ (snap # NoSnapshot \/ snapshots # <<>>) => proc # None
    /\ (pc = "failed" /\ err.kind = "OSError") =>
          ~started /\ proc = None /\ WaitingForStart

\* the Monitor has built its first snapshot, after the wait, with the
\* process handle assigned
C21_Witness ==
    /\ mpc = "wait_tick" /\ snap.timestamp # NoValue /\ snapshots = <<>>
    /\ started /\ proc = "child"

\* the line that the terminator at position i of the file closes
LineEndingAt(file, i) ==
    LET before == {j \in 0..(i - 1) : j = 0 \/ file[j] = NL}
        s == CHOOSE j \in before : \A k \in before : k <= j
    IN  SubSeq(file, s + 1, i - 1)

\* terminators up to position p of the file that close a line which parses
WellFormedLines(file, p, op) ==
    {i \in Terminators(file, 1, p) : parse_func(op, LineEndingAt(file, i)).ok}

(* C22: the Monitor's running message total is the number of well-formed,   *)
(* newline-terminated lines of the transfer log that lie before the read    *)
(* cursor, so no record is counted twice or missed from one tick to the     *)
(* next, and the total never exceeds the number of complete lines the       *)
(* process has written so far.                                              *)
C22_TotalMatchesLog ==
    /\ messages = Cardinality(WellFormedLines(log, fpos, operation))
    /\ messages <= Cardinality(Terminators(log, 1, Len(log)))
    /\ messages = Len(collected)

\* a first tick read a malformed line and saved a snapshot with no record;
\* a later tick has just read the one record that follows it
C22_Witness ==
    /\ mpc = "snapshot" /\ snapshots # <<>>
    /\ snapshots[1].message_count = 0
    /\ transfers # <<>> /\ messages = 1
    /\ Cardinality(Terminators(log, 1, fpos)) = 2

\* the Monitor is inside its loop and its thread exists
InMonitorLoop == Alive /\ mpc \in {"wait_tick", "collect", "snapshot"}

\* the Monitor step that runs check_timeout
CheckTimeoutStep == mpc = "snapshot" /\ mpc' = "wait_tick"

(* C23: once stop is set the Monitor stays in its loop, ticking, until      *)
(* ended is set; a tick that finds the stall leaves the checkpoint as it    *)
(* was and sets stop (again), a tick that finds new records moves the       *)
(* checkpoint to that tick, and no step clears stop.                        *)
C23_MonitorTicksAfterStop ==
    /\ []((stop /\ ~ended) => InMonitorLoop)
    /\ [][/\ stop => stop'
          /\ ( /\ CheckTimeoutStep
               /\ messages = timeout_checkpoint[2]
               /\ clock - timeout_checkpoint[1] > timeout ) =>
                  stop' /\ timeout_checkpoint' = timeout_checkpoint
          /\ (CheckTimeoutStep /\ messages > timeout_checkpoint[2]) =>
                  timeout_checkpoint' = <<clock, messages>>]_vars

\* the Controller step that calls os.killpg
KillpgStep == pc = "killpg" /\ pc' # pc

(* C24: with stop set the Controller's wait returns true at once and the    *)
(* terminate signal is sent; after sending it the Controller goes back to   *)
(* poll, so that the signal is sent again on every iteration that still     *)
(* finds the process alive; no signal is sent unless stop is set, and none  *)
(* once the process's exit has been observed.                               *)
C24_TerminateEveryIteration ==
    /\ []((sigterm \/ signalled # {} \/ pc = "killpg") => stop)
    /\ [](pc = "killpg" => returncode = NoValue /\ procState # "reaped")
    /\ [][/\ (pc = "wait_stop" /\ pc' # pc /\ stop) => pc' = "killpg"
          /\ (pc = "wait_stop" /\ pc' # pc /\ ~stop) => pc' = "poll"
          /\ KillpgStep => (pc' = "poll" /\ sigterm')]_vars

====
